---- MODULE Spec2Model ----
(***************************************************************************)
(* Model of the News Query Client of consensia_agent/tools.py:             *)
(* get_related_news (NewsAPI), get_related_news_gnews (GNews) and the      *)
(* Keyword Extractor extract_keywords.                                     *)
(*                                                                         *)
(* Strings that the code inspects (date, topic) are sequences of           *)
(* one-character strings.  None and "" are both the empty sequence: the    *)
(* code only ever tests them for truthiness (tools.py:57, 158).            *)
(***************************************************************************)
EXTENDS Integers, Sequences, FiniteSets, TLC

(***************************************************************************)
(* Bounds of the model.                                                    *)
(***************************************************************************)
MaxArticles == 2

(***************************************************************************)
(* Characters and strings.                                                 *)
(***************************************************************************)
DigitChars == {"0", "1", "2", "3", "4", "5", "6", "7", "8", "9"}

DigitVal(c) ==
    CASE c = "0" -> 0 [] c = "1" -> 1 [] c = "2" -> 2 [] c = "3" -> 3
      [] c = "4" -> 4 [] c = "5" -> 5 [] c = "6" -> 6 [] c = "7" -> 7
      [] c = "8" -> 8 [] c = "9" -> 9

\* str.isspace() for the characters the model uses
Whitespace == {" ", "\t"}

\* s[i] or "" past the end of s
CharAt(s, i) == IF i >= 1 /\ i <= Len(s) THEN s[i] ELSE ""

\* c in s
Contains(s, c) == \E i \in 1..Len(s) : s[i] = c

\* len(s.strip()) > 0
NonBlank(s) == \E i \in 1..Len(s) : s[i] \notin Whitespace

\* s.split('T')[0]
SplitT(s) ==
    IF Contains(s, "T")
    THEN SubSeq(s, 1, (CHOOSE i \in 1..Len(s) :
                          s[i] = "T" /\ \A j \in 1..(i - 1) : s[j] # "T") - 1)
    ELSE s

(***************************************************************************)
(* The calendar of datetime: proleptic Gregorian, years MINYEAR..MAXYEAR.  *)
(* A day is <<year, month, day>>.                                          *)
(***************************************************************************)
MINYEAR == 1
MAXYEAR == 9999

IsLeap(y) == (y % 4 = 0) /\ ((y % 100 # 0) \/ (y % 400 = 0))

DaysInMonth(y, m) ==
    IF m = 2 THEN (IF IsLeap(y) THEN 29 ELSE 28)
    ELSE IF m \in {4, 6, 9, 11} THEN 30 ELSE 31

\* outcome markers of the date arithmetic and of the parser
OverflowError == <<"OverflowError">>
ValueError == <<"ValueError">>

\* faulty variant of MinusOneDay: a window of zero days
MinusOneDayMutant(D) == D

\* target_date - timedelta(days=1)
MinusOneDay(D) ==
    IF D[3] > 1 THEN <<D[1], D[2], D[3] - 1>>
    ELSE IF D[2] > 1 THEN <<D[1], D[2] - 1, DaysInMonth(D[1], D[2] - 1)>>
    ELSE IF D[1] > MINYEAR THEN <<D[1] - 1, 12, 31>>
    ELSE OverflowError

\* target_date + timedelta(days=1)
PlusOneDay(D) ==
    IF D[3] < DaysInMonth(D[1], D[2]) THEN <<D[1], D[2], D[3] + 1>>
    ELSE IF D[2] < 12 THEN <<D[1], D[2] + 1, 1>>
    ELSE IF D[1] < MAXYEAR THEN <<D[1] + 1, 1, 1>>
    ELSE OverflowError

(***************************************************************************)
(* datetime.strptime(s, "%Y-%m-%d").  The format compiles to the regular   *)
(* expression                                                              *)
(*   (\d\d\d\d)-(1[0-2]|0[1-9]|[1-9])-(3[01]|[12]\d|0[1-9]|[1-9]| [1-9])   *)
(* matched at the start of s; text left after the match, a year of 0 or a  *)
(* day past the end of the month raise ValueError.                         *)
(***************************************************************************)
\* number of characters the %m directive consumes at position i (0: no match)
MonthLen(s, i) ==
    IF CharAt(s, i) = "1" /\ CharAt(s, i + 1) \in {"0", "1", "2"} THEN 2
    ELSE IF CharAt(s, i) = "0" /\ CharAt(s, i + 1) \in DigitChars \ {"0"} THEN 2
    ELSE IF CharAt(s, i) \in DigitChars \ {"0"} THEN 1
    ELSE 0

\* number of characters the %d directive consumes at position i (0: no match)
DayLen(s, i) ==
    IF CharAt(s, i) = "3" /\ CharAt(s, i + 1) \in {"0", "1"} THEN 2
    ELSE IF CharAt(s, i) \in {"1", "2"} /\ CharAt(s, i + 1) \in DigitChars THEN 2
    ELSE IF CharAt(s, i) = "0" /\ CharAt(s, i + 1) \in DigitChars \ {"0"} THEN 2
    ELSE IF CharAt(s, i) \in DigitChars \ {"0"} THEN 1
    ELSE IF CharAt(s, i) = " " /\ CharAt(s, i + 1) \in DigitChars \ {"0"} THEN 2
    ELSE 0

\* int() of the characters i..j of s (leading blank of " 5" skipped)
IntOf(s, i, j) ==
    LET RECURSIVE Val(_)
        Val(k) == IF k < i THEN 0
                  ELSE IF s[k] = " " THEN 0
                  ELSE 10 * Val(k - 1) + DigitVal(s[k])
    IN Val(j)

Strptime(s) ==
    IF ~ (/\ \A i \in 1..4 : CharAt(s, i) \in DigitChars
          /\ CharAt(s, 5) = "-"
          /\ MonthLen(s, 6) > 0
          /\ CharAt(s, 6 + MonthLen(s, 6)) = "-"
          /\ DayLen(s, 7 + MonthLen(s, 6)) > 0)
    THEN ValueError
    ELSE LET ml == MonthLen(s, 6)
             dl == DayLen(s, 7 + ml)
             y == IntOf(s, 1, 4)
             m == IntOf(s, 6, 5 + ml)
             d == IntOf(s, 7 + ml, 6 + ml + dl)
         IN IF 6 + ml + dl # Len(s) THEN ValueError
            ELSE IF y < MINYEAR THEN ValueError
            ELSE IF d > DaysInMonth(y, m) THEN ValueError
            ELSE <<y, m, d>>

(***************************************************************************)
(* extract_keywords (tools.py:184-219).                                    *)
(***************************************************************************)
\* str.lower() of one character
LowerChar(c) ==
    CASE c = "A" -> "a"
      [] c = "B" -> "b"
      [] c = "C" -> "c"
      [] c = "D" -> "d"
      [] c = "E" -> "e"
      [] c = "F" -> "f"
      [] c = "G" -> "g"
      [] c = "H" -> "h"
      [] c = "I" -> "i"
      [] c = "J" -> "j"
      [] c = "K" -> "k"
      [] c = "L" -> "l"
      [] c = "M" -> "m"
      [] c = "N" -> "n"
      [] c = "O" -> "o"
      [] c = "P" -> "p"
      [] c = "Q" -> "q"
      [] c = "R" -> "r"
      [] c = "S" -> "s"
      [] c = "T" -> "t"
      [] c = "U" -> "u"
      [] c = "V" -> "v"
      [] c = "W" -> "w"
      [] c = "X" -> "x"
      [] c = "Y" -> "y"
      [] c = "Z" -> "z"
      [] OTHER -> c

\* topic.lower()
Lower(s) == [i \in 1..Len(s) |-> LowerChar(s[i])]

\* length of the run of non-whitespace characters at the head of s
RECURSIVE WordLen(_)
WordLen(s) ==
    IF s = <<>> THEN 0
    ELSE IF Head(s) \in Whitespace THEN 0
    ELSE 1 + WordLen(Tail(s))

\* s.split(): the maximal runs of non-whitespace characters, in order
RECURSIVE Split(_)
Split(s) ==
    IF s = <<>> THEN <<>>
    ELSE IF Head(s) \in Whitespace THEN Split(Tail(s))
    ELSE <<SubSeq(s, 1, WordLen(s))>> \o Split(SubSeq(s, WordLen(s) + 1, Len(s)))

\* " ".join(words)
RECURSIVE Join(_)
Join(words) ==
    IF words = <<>> THEN <<>>
    ELSE IF Len(words) = 1 THEN words[1]
    ELSE words[1] \o <<" ">> \o Join(Tail(words))

stop_words ==
    {
      <<"a">>, <<"a", "n">>, <<"t", "h", "e">>,
      <<"a", "n", "d">>, <<"o", "r">>, <<"b", "u", "t">>,
      <<"i", "s">>, <<"a", "r", "e">>, <<"w", "a", "s">>,
      <<"w", "e", "r", "e">>, <<"i", "n">>, <<"o", "n">>,
      <<"a", "t">>, <<"t", "o">>, <<"f", "o", "r">>,
      <<"w", "i", "t", "h">>, <<"b", "y">>, <<"a", "b", "o", "u", "t">>,
      <<"l", "i", "k", "e">>, <<"f", "r", "o", "m">>, <<"o", "f">>,
      <<"g", "e", "t", "s">>, <<"g", "o", "t">>, <<"g", "e", "t">>
    }

\* faulty variant of FilterStopWords: the filter stops after the first stop
\* word it removes
FilterStopWordsMutant(words) ==
    LET hits == {i \in 1..Len(words) : words[i] \in stop_words}
    IN IF hits = {} THEN words
       ELSE LET k == CHOOSE i \in hits : \A j \in hits : i <= j
            IN SubSeq(words, 1, k - 1) \o SubSeq(words, k + 1, Len(words))

\* [word for word in words if word not in stop_words]
RECURSIVE FilterStopWords(_)
FilterStopWords(words) ==
    IF words = <<>> THEN <<>>
    ELSE IF Head(words) \in stop_words THEN FilterStopWords(Tail(words))
    ELSE <<Head(words)>> \o FilterStopWords(Tail(words))

\* faulty variant of extract_keywords: the words are filtered as they are
\* written, without lower-casing the topic
extract_keywordsCaseMutant(topic) ==
    IF Len(Split(topic)) <= 3 THEN topic
    ELSE LET keywords == FilterStopWords(Split(topic))
         IN IF keywords # <<>> THEN Join(keywords) ELSE topic

\* faulty variant of extract_keywords: a topic whose words are all stop
\* words is reduced to the empty string
extract_keywordsEmptyMutant(topic) ==
    IF Len(Split(topic)) <= 3 THEN topic
    ELSE Join(FilterStopWords(Split(Lower(topic))))

\* faulty variant of extract_keywords: topics of three words are filtered too
extract_keywordsShortMutant(topic) ==
    IF Len(Split(topic)) < 3 THEN topic
    ELSE LET keywords == FilterStopWords(Split(Lower(topic)))
         IN IF keywords # <<>> THEN Join(keywords) ELSE topic

\* tools.py:184-219
extract_keywords(topic) ==
    IF Len(Split(topic)) <= 3 THEN topic
    ELSE LET keywords == FilterStopWords(Split(Lower(topic)))
         IN IF keywords # <<>> THEN Join(keywords) ELSE topic

(***************************************************************************)
(* Python and JSON values.  A member of a JSON object is a record          *)
(* [t, v]: t = "absent" (no such key), "None" (JSON null) or "str".        *)
(***************************************************************************)
PyStr(v) == [t |-> "str", v |-> v]
PyNone == [t |-> "None", v |-> ""]
JAbsent == [t |-> "absent", v |-> ""]

\* dict.get(key, default) for the member x
Get(x, default) == IF x.t = "absent" THEN default ELSE x

\* bool(x)
Truthy(x) == x.t = "str" /\ x.v # ""

(***************************************************************************)
(* The Result dictionaries and their messages.  A message is the record    *)
(* of the parts of the f-string that builds it.                            *)
(***************************************************************************)
Msg(text, topic, date_info, detail, code) ==
    [text |-> text, topic |-> topic, date_info |-> date_info,
     detail |-> detail, code |-> code]

Success(stories) == [status |-> "success", stories |-> stories]

\* faulty variant of SuccessWithNote: the note is left out
SuccessWithNoteMutant(stories) == [status |-> "success", stories |-> stories]

SuccessWithNote(stories) ==
    [status |-> "success", stories |-> stories,
     note |-> "Results found by expanding the search beyond the specified date."]

Failure(msg) == [status |-> "error", error_message |-> msg]

\* tools.py:31-35 and 250-254
ConfigError(provider) ==
    IF provider = "newsapi"
    THEN Failure(Msg("NewsAPI key not found in environment variables.",
                     <<>>, <<>>, "", 0))
    ELSE Failure(Msg("GNews API key not found in environment variables. Please set the GNEWS_API_KEY environment variable.",
                     <<>>, <<>>, "", 0))

\* faulty variant of NoArticlesFound: the message quotes the reduced keywords
NoArticlesFoundMutant(date, topic) ==
    Failure(Msg("No news articles found for topic", extract_keywords(topic),
                IF Len(date) > 0 /\ NonBlank(date) THEN date ELSE <<>>,
                "Try using more specific keywords or a different date range.", 0))

\* tools.py:157-162 and 379-384
NoArticlesFound(date, topic) ==
    Failure(Msg("No news articles found for topic", topic,
                IF Len(date) > 0 /\ NonBlank(date) THEN date ELSE <<>>,
                "Try using more specific keywords or a different date range.", 0))

\* tools.py:177-182 and 417-422
ErrorFetchingNews(exc) == Failure(Msg("Error fetching news: ", <<>>, <<>>, exc, 0))

(***************************************************************************)
(* What a stretch of the function body does: return a Result, raise, or    *)
(* issue the next HTTP request and block on it.                            *)
(***************************************************************************)
Return(res) == [kind |-> "return", result |-> res]
Raise(exc) == [kind |-> "raise", exc |-> exc]
Request(newParams, sent) == [kind |-> "request", params |-> newParams, sent |-> sent]

\* faulty variant of OuterExcept: no handler, the exception leaves the function
OuterExceptMutant(outcome) == outcome

\* the handler "except Exception as e" that encloses each function body
OuterExcept(outcome) ==
    IF outcome.kind = "raise" THEN Return(ErrorFetchingNews(outcome.exc))
    ELSE outcome

(***************************************************************************)
(* Building the request parameters.                                        *)
(***************************************************************************)
\* os.environ.get(name): [present |-> FALSE] is None
EnvName(provider) == IF provider = "newsapi" THEN "NEWS_API_KEY" ELSE "GNEWS_API_KEY"

\* faulty variant of CredentialMissing: "api_key is None", an empty key passes
CredentialMissingMutant(key) == ~ key.present

\* "not api_key"
CredentialMissing(key) == ~ key.present \/ key.value = ""

\* tools.py:41-51 and 260-270
BaseParams(provider, topic, api_key) ==
    LET keywords == extract_keywords(topic)
        search_query == IF keywords # <<>> THEN keywords ELSE topic
    IN IF provider = "newsapi"
       THEN [q |-> search_query, apiKey |-> api_key, language |-> "en",
             sortBy |-> "relevancy", pageSize |-> 10]
       ELSE [q |-> search_query, token |-> api_key, lang |-> "en",
             max |-> 10, expand |-> "content"]

\* strftime of a bound of the window: the day, and the time of day GNews wants
FormatBound(provider, day, which) ==
    [day |-> day,
     time |-> IF provider = "newsapi" THEN ""
              ELSE IF which = "from" THEN "T00:00:00Z" ELSE "T23:59:59Z"]

\* a day, as opposed to ValueError or OverflowError
IsDay(x) == Len(x) = 3

\* faulty variant of AttachDateWindow: the ValueError of strptime is not caught
AttachDateWindowMutant(provider, params, date) ==
    IF ~ (Len(date) > 0 /\ NonBlank(date)) THEN Return(params)
    ELSE IF ~ (Len(date) >= 10 /\ Contains(date, "-")) THEN Return(params)
    ELSE LET target_date == Strptime(SplitT(date))
         IN IF ~ IsDay(target_date) THEN Raise("ValueError")
            ELSE LET from_date == MinusOneDay(target_date)
                     to_date == PlusOneDay(target_date)
                 IN IF ~ IsDay(from_date) \/ ~ IsDay(to_date)
                    THEN Raise("OverflowError")
                    ELSE Return(params @@
                                [from |-> FormatBound(provider, from_date, "from"),
                                 to |-> FormatBound(provider, to_date, "to")])

\* tools.py:53-75 and 272-295: the params with the date window attached,
\* the params unchanged when there is no usable date, or an exception
AttachDateWindow(provider, params, date) ==
    IF ~ (Len(date) > 0 /\ NonBlank(date)) THEN Return(params)
    ELSE IF ~ (Len(date) >= 10 /\ Contains(date, "-")) THEN Return(params)
    ELSE LET target_date == Strptime(SplitT(date))
         IN IF ~ IsDay(target_date) THEN Return(params)
            ELSE LET from_date == MinusOneDay(target_date)
                     to_date == PlusOneDay(target_date)
                 IN IF ~ IsDay(from_date) \/ ~ IsDay(to_date)
                    THEN Raise("OverflowError")
                    ELSE Return(params @@
                                [from |-> FormatBound(provider, from_date, "from"),
                                 to |-> FormatBound(provider, to_date, "to")])

HasDateWindow(params) == "from" \in DOMAIN params /\ "to" \in DOMAIN params

\* faulty variant of WithoutDateWindow: only "from" is deleted from the copy
WithoutDateWindowMutant(params) ==
    [k \in DOMAIN params \ {"from"} |-> params[k]]

\* params.copy() with "from" and "to" deleted
WithoutDateWindow(params) ==
    [k \in DOMAIN params \ {"from", "to"} |-> params[k]]

(***************************************************************************)
(* Provider responses.  A response either raises inside requests.get       *)
(* (timeout, connection error) or carries a status code and a body.        *)
(* A body is invalid JSON, a JSON array, or a JSON object with the members *)
(* the code reads.                                                         *)
(***************************************************************************)
Article(title, source, name, description, url) ==
    [title |-> title, source |-> [t |-> source, name |-> name],
     description |-> description, content |-> JAbsent, url |-> url,
     publishedAt |-> JAbsent, image |-> JAbsent]

ArtA == Article(PyStr("A"), "dict", PyStr("Reuters"), PyStr("dA"), PyStr("uA"))
ArtB == Article(PyStr("B"), "absent", JAbsent, PyNone, PyStr("uB"))
ArtUntitled == Article(PyStr(""), "dict", JAbsent, PyStr("dU"), PyStr("uU"))
ArtNoTitle == Article(JAbsent, "dict", PyStr("BBC"), JAbsent, PyStr("uN"))
ArtNullTitle == Article(PyNone, "dict", PyStr("BBC"), JAbsent, PyStr("uN"))
\* "source": null, on which .get raises AttributeError
ArtBroken == Article(PyStr("A"), "null", JAbsent, JAbsent, JAbsent)

ArticleKinds == {ArtA, ArtB, ArtUntitled}

RECURSIVE SeqsUpTo(_, _)
SeqsUpTo(S, n) ==
    IF n = 0 THEN {<<>>}
    ELSE SeqsUpTo(S, n - 1) \cup
         {Append(q, x) : q \in {r \in SeqsUpTo(S, n - 1) : Len(r) = n - 1}, x \in S}

ArticleLists ==
    SeqsUpTo(ArticleKinds, MaxArticles)
        \cup {<<ArtNoTitle>>, <<ArtNullTitle, ArtA>>, <<ArtBroken>>, <<ArtA, ArtBroken>>}

\* the "articles" member: absent, a list, or ill-typed (a number)
ArticlesValues ==
    {[t |-> "absent", items |-> <<>>], [t |-> "number", items |-> <<>>]}
        \cup {[t |-> "list", items |-> l] : l \in ArticleLists}

\* the "errors" member of a GNews error body
NoErrors == [t |-> "absent", items |-> <<>>]

ErrorTexts == {"rate limited", "Daily limit reached", "Invalid API key"}

\* the "totalResults" member; -1 stands for an absent key
TotalValues == {-1, 0, 2}

JsonObject(status, total, articles, message, errors) ==
    [json |-> "object", status |-> status, totalResults |-> total,
     articles |-> articles, message |-> message, errors |-> errors]

InvalidJson == [JsonObject(JAbsent, -1, [t |-> "absent", items |-> <<>>], JAbsent, NoErrors)
                    EXCEPT !.json = "invalid"]
JsonArray == [InvalidJson EXCEPT !.json = "array"]

SearchBodies ==
    {JsonObject(PyStr(st), n, a, JAbsent, NoErrors) :
        st \in {"ok", "error"}, n \in TotalValues, a \in ArticlesValues}

ErrorBodies ==
    {JsonObject(PyStr("error"), -1, [t |-> "absent", items |-> <<>>], m, e) :
        m \in {JAbsent}, e \in {NoErrors, [t |-> "list", items |-> <<>>]}}
    \cup {JsonObject(PyStr("error"), -1, [t |-> "absent", items |-> <<>>], PyStr(x), NoErrors) :
        x \in ErrorTexts}
    \cup {JsonObject(JAbsent, -1, [t |-> "absent", items |-> <<>>], JAbsent,
                     [t |-> "list", items |-> <<x>>]) : x \in ErrorTexts}

ErrorCodes == {403, 429}

Http(code, body) == [raises |-> FALSE, exc |-> "", code |-> code, body |-> body]
Timeout == [raises |-> TRUE, exc |-> "Timeout", code |-> 0, body |-> InvalidJson]

Responses ==
    {Timeout}
        \cup {Http(200, b) : b \in SearchBodies \cup {InvalidJson, JsonArray}}
        \cup {Http(c, b) : c \in ErrorCodes, b \in ErrorBodies \cup {InvalidJson, JsonArray}}

(***************************************************************************)
(* Normalising the articles of a response into Story Records.              *)
(***************************************************************************)
\* tools.py:90-105 and 310-327: the story of one article
Story(provider, article) ==
    LET source_name == IF article.source.t = "absent" THEN PyStr("Unknown source")
                       ELSE Get(article.source.name, PyStr("Unknown source"))
        base == [headline |-> Get(article.title, PyStr("")),
                 source |-> source_name,
                 description |-> Get(article.description, PyStr("")),
                 content |-> Get(article.content, PyStr("")),
                 url |-> Get(article.url, PyStr("")),
                 published_at |-> Get(article.publishedAt, PyStr(""))]
    IN IF provider = "newsapi" THEN base
       ELSE base @@ [image |-> Get(article.image, PyStr(""))]

\* faulty variant of KeepArticle: articles without a title are kept
KeepArticleMutant(article) == TRUE

\* "if title:" for the title of an article
KeepArticle(article) == Truthy(Get(article.title, PyStr("")))

\* the loop "for article in ...": the stories appended so far, and the
\* exception that ended the loop, if any
RECURSIVE StoriesLoop(_, _, _)
StoriesLoop(provider, items, stories) ==
    IF items = <<>> THEN [exc |-> "", stories |-> stories]
    ELSE IF Head(items).source.t = "null" THEN [exc |-> "AttributeError", stories |-> stories]
    ELSE StoriesLoop(provider, Tail(items),
                     IF KeepArticle(Head(items))
                     THEN Append(stories, Story(provider, Head(items)))
                     ELSE stories)

\* faulty variant of StoriesFound: an empty list of stories is returned as a Success
StoriesFoundMutant(stories) == TRUE

\* "if stories:" (tools.py:108, 150, 330, 372)
StoriesFound(stories) == stories # <<>>

\* iterating data['articles']
IterateArticles(provider, articles) ==
    IF articles.t = "absent" THEN [exc |-> "KeyError", stories |-> <<>>]
    ELSE IF articles.t = "number" THEN [exc |-> "TypeError", stories |-> <<>>]
    ELSE StoriesLoop(provider, articles.items, <<>>)

\* bool(data.get('articles'))
ArticlesTruthy(articles) ==
    articles.t = "number" \/ (articles.t = "list" /\ articles.items # <<>>)

\* data.get('status') == 'ok'
StatusOk(data) == data.status.t = "str" /\ data.status.v = "ok"

\* data.get('totalResults', 0)
TotalResults(data) == IF data.totalResults = -1 THEN 0 ELSE data.totalResults

(***************************************************************************)
(* Processing the responses.                                               *)
(***************************************************************************)
\* response.json(): the exception it raises on the body, "" if none; a JSON
\* array has no .get, which the first data.get(...) reports
JsonFault(body) ==
    IF body.json = "invalid" THEN "JSONDecodeError"
    ELSE IF body.json = "array" THEN "AttributeError"
    ELSE ""

\* tools.py:85 and 305: the test that guards the first loop over the articles
HasArticles(provider, data) ==
    IF provider = "newsapi"
    THEN StatusOk(data) /\ TotalResults(data) > 0 /\ ArticlesTruthy(data.articles)
    ELSE ArticlesTruthy(data.articles)

\* tools.py:115 and 337: the test that guards the fallback
NoResults(provider, data) ==
    IF provider = "newsapi"
    THEN StatusOk(data) /\ TotalResults(data) = 0
    ELSE ~ ArticlesTruthy(data.articles)

\* len(data['articles']) raises on an ill-typed "articles" (GNews, line 305)
LenFault(provider, data) == provider = "gnews" /\ data.articles.t = "number"

\* tools.py:128 and 348: the test that guards the loop over the fallback articles
FallbackHasArticles(provider, data) ==
    IF provider = "newsapi"
    THEN StatusOk(data) /\ TotalResults(data) > 0
    ELSE ArticlesTruthy(data.articles)

\* the text x occurs in str(error_data)
Mentions(data, x) ==
    (data.message.t = "str" /\ data.message.v = x)
        \/ (\E i \in 1..Len(data.errors.items) : data.errors.items[i] = x)

\* tools.py:164-175: a non-200 answer of NewsAPI
NewsApiError(response) ==
    LET data == response.body
        error_message ==
            IF JsonFault(data) # "" THEN "HTTP error"
            ELSE Get(data.message, PyStr("Unknown error")).v
    IN Failure(Msg("NewsAPI error: ", <<>>, <<>>, error_message,
                   IF JsonFault(data) # "" THEN response.code ELSE 0))

\* tools.py:386-415: a non-200 answer of GNews
GNewsError(response) ==
    LET data == response.body
        fault == IF JsonFault(data) # "" THEN JsonFault(data)
                 ELSE IF data.errors.t = "list" /\ data.errors.items = <<>> THEN "IndexError"
                 ELSE ""
        error_message == IF data.errors.t = "absent" THEN "Unknown error"
                         ELSE data.errors.items[1]
    IN IF fault # ""
       THEN Failure(Msg("GNews API error: ", <<>>, <<>>, "HTTP error", response.code))
       ELSE IF Mentions(data, "Daily limit reached")
       THEN Failure(Msg("GNews API daily request limit exceeded. Please try again tomorrow.",
                        <<>>, <<>>, "", 0))
       ELSE IF Mentions(data, "Invalid API key")
       THEN Failure(Msg("Invalid GNews API key. Please check your API key configuration.",
                        <<>>, <<>>, "", 0))
       ELSE Failure(Msg("GNews API error: ", <<>>, <<>>, error_message, response.code))

ProviderError(provider, response) ==
    IF provider = "newsapi" THEN NewsApiError(response) ELSE GNewsError(response)

\* faulty variant of StartFallback: no retry without the date window
StartFallbackMutant(provider, params, date, topic) ==
    Return(NoArticlesFound(date, topic))

\* tools.py:114-124 and 336-344: no results in the primary answer
StartFallback(provider, params, date, topic) ==
    LET switched == IF provider = "newsapi"
                    THEN [params EXCEPT !.sortBy = "popularity"]
                    ELSE params
    IN IF HasDateWindow(switched)
       THEN Request(switched, WithoutDateWindow(switched))
       ELSE Return(NoArticlesFound(date, topic))

\* faulty variant of ProcessPrimary: a non-200 answer starts the fallback
ProcessPrimaryMutant(provider, params, date, topic, response) ==
    IF response.raises THEN Raise(response.exc)
    ELSE IF response.code # 200 THEN StartFallback(provider, params, date, topic)
    ELSE IF JsonFault(response.body) # "" THEN Raise(JsonFault(response.body))
    ELSE LET data == response.body
             loop == IterateArticles(provider, data.articles)
             after == IF NoResults(provider, data)
                      THEN StartFallback(provider, params, date, topic)
                      ELSE Return(NoArticlesFound(date, topic))
         IN IF LenFault(provider, data) THEN Raise("TypeError")
            ELSE IF HasArticles(provider, data)
            THEN IF loop.exc # "" THEN Raise(loop.exc)
                 ELSE IF StoriesFound(loop.stories) THEN Return(Success(loop.stories))
                 ELSE after
            ELSE after

\* tools.py:78-175 and 298-415: from the primary response to the next
\* return, raise or request
ProcessPrimary(provider, params, date, topic, response) ==
    IF response.raises THEN Raise(response.exc)
    ELSE IF response.code # 200 THEN Return(ProviderError(provider, response))
    ELSE IF JsonFault(response.body) # "" THEN Raise(JsonFault(response.body))
    ELSE LET data == response.body
             loop == IterateArticles(provider, data.articles)
             after == IF NoResults(provider, data)
                      THEN StartFallback(provider, params, date, topic)
                      ELSE Return(NoArticlesFound(date, topic))
         IN IF LenFault(provider, data) THEN Raise("TypeError")
            ELSE IF HasArticles(provider, data)
            THEN IF loop.exc # "" THEN Raise(loop.exc)
                 ELSE IF StoriesFound(loop.stories) THEN Return(Success(loop.stories))
                 ELSE after
            ELSE after

\* tools.py:124-162 and 344-384: from the fallback response to the return
ProcessFallback(provider, date, topic, response) ==
    IF response.raises THEN Raise(response.exc)
    ELSE IF response.code # 200 THEN Return(NoArticlesFound(date, topic))
    ELSE IF JsonFault(response.body) # "" THEN Raise(JsonFault(response.body))
    ELSE LET data == response.body
             loop == IterateArticles(provider, data.articles)
         IN IF LenFault(provider, data) THEN Raise("TypeError")
            ELSE IF FallbackHasArticles(provider, data)
            THEN IF loop.exc # "" THEN Raise(loop.exc)
                 ELSE IF StoriesFound(loop.stories) THEN Return(SuccessWithNote(loop.stories))
                 ELSE Return(NoArticlesFound(date, topic))
            ELSE Return(NoArticlesFound(date, topic))

(***************************************************************************)
(* The get_related_news tool of agent.py, the one root_agent is built      *)
(* with.  It reads NEWS_API_KEY, sends one request and returns.  Its       *)
(* outer handler (agent.py:107-112) is the handler OuterExcept models.     *)
(***************************************************************************)
\* agent.py:27-30
AgentConfigError ==
    Failure(Msg("NewsAPI key not found in environment variables.", <<>>, <<>>, "", 0))

\* agent.py:88-92
AgentNoArticlesFound(date, topic) ==
    Failure(Msg("No news articles found for topic", topic,
                IF Len(date) > 0 /\ NonBlank(date) THEN date ELSE <<>>, "", 0))

\* agent.py:82-85
AgentSuccess(headlines) == [status |-> "success", stories |-> headlines]

\* faulty variant of AgentParams: the topic is reduced to keywords, as the
\* tools of tools.py do
AgentParamsMutant(topic, api_key) ==
    [q |-> extract_keywords(topic), apiKey |-> api_key, language |-> "en",
     sortBy |-> "relevancy", pageSize |-> 5]

\* agent.py:36-42
AgentParams(topic, api_key) ==
    [q |-> topic, apiKey |-> api_key, language |-> "en",
     sortBy |-> "relevancy", pageSize |-> 5]

\* agent.py:46-61: from and to are the day part of the date string as it
\* was given, once strptime has accepted it
AgentAttachDate(params, date) ==
    IF ~ (Len(date) > 0 /\ NonBlank(date)) THEN params
    ELSE IF ~ (Len(date) >= 10 /\ Contains(date, "-")) THEN params
    ELSE LET date_str == SplitT(date)
         IN IF ~ IsDay(Strptime(date_str)) THEN params
            ELSE params @@ [from |-> date_str, to |-> date_str]

\* agent.py:76-79: f"{title} - {source_name}", as its two parts
AgentHeadline(article) ==
    [title |-> Get(article.title, PyStr("")),
     source_name |-> IF article.source.t = "absent" THEN PyStr("Unknown source")
                     ELSE Get(article.source.name, PyStr("Unknown source"))]

\* agent.py:74-79: the loop over data['articles']
RECURSIVE AgentHeadlinesLoop(_, _)
AgentHeadlinesLoop(items, headlines) ==
    IF items = <<>> THEN [exc |-> "", headlines |-> headlines]
    ELSE IF Head(items).source.t = "null"
    THEN [exc |-> "AttributeError", headlines |-> headlines]
    ELSE AgentHeadlinesLoop(Tail(items),
                            IF Truthy(Get(Head(items).title, PyStr("")))
                            THEN Append(headlines, AgentHeadline(Head(items)))
                            ELSE headlines)

\* agent.py:96-105
AgentApiError(response) ==
    LET data == response.body
    IN IF JsonFault(data) # ""
       THEN Failure(Msg("NewsAPI error: ", <<>>, <<>>, "HTTP error", response.code))
       ELSE Failure(Msg("NewsAPI error: ", <<>>, <<>>,
                        Get(data.message, PyStr("Unknown error")).v, 0))

\* agent.py:64-105: what the call does with the response
AgentProcess(date, topic, response) ==
    IF response.raises THEN Raise(response.exc)
    ELSE IF response.code # 200 THEN Return(AgentApiError(response))
    ELSE LET data == response.body
         IN IF JsonFault(data) # "" THEN Raise(JsonFault(data))
            ELSE IF StatusOk(data) /\ TotalResults(data) > 0 /\ ArticlesTruthy(data.articles)
            THEN IF data.articles.t = "number" THEN Raise("TypeError")
                 ELSE LET loop == AgentHeadlinesLoop(data.articles.items, <<>>)
                      IN IF loop.exc # "" THEN Raise(loop.exc)
                         ELSE IF loop.headlines # <<>>
                         THEN Return(AgentSuccess(loop.headlines))
                         ELSE Return(AgentNoArticlesFound(date, topic))
            ELSE Return(AgentNoArticlesFound(date, topic))

(***************************************************************************)
(* Inputs of the model.                                                    *)
(***************************************************************************)
Providers == {"newsapi", "gnews"}

\* os.environ.get: unset, set to the empty string, set to a key
KeyValues == {[present |-> FALSE, value |-> ""],
              [present |-> TRUE, value |-> ""],
              [present |-> TRUE, value |-> "k"]}

Environments == [{"NEWS_API_KEY", "GNEWS_API_KEY"} -> KeyValues]

\* "Jet oil", "A Jet of the oil", "a of in to", ""
Topics ==
    {<<"J", "e", "t", " ", "o", "i", "l">>,
     <<"A", " ", "J", "e", "t", " ", "o", "f", " ", "t", "h", "e", " ", "o", "i", "l">>,
     <<"a", " ", "o", "f", " ", "i", "n", " ", "t", "o">>,
     <<>>}

\* no date, "2024-03-01", "2024-02-29T10:00", "yesterday", " "
Dates ==
    {<<>>,
     <<"2", "0", "2", "4", "-", "0", "3", "-", "0", "1">>,
     <<"2", "0", "2", "4", "-", "0", "2", "-", "2", "9", "T", "1", "0", ":", "0", "0">>,
     <<"y", "e", "s", "t", "e", "r", "d", "a", "y">>,
     <<" ">>}

\* the date strings year-month-day followed by a suffix, and a few others
YearTexts == {<<"0", "0", "0", "0">>, <<"0", "0", "0", "1">>, <<"2", "0", "2", "3">>, <<"2", "0", "2", "4">>, <<"9", "9", "9", "9">>}
MonthTexts == {<<"0", "1">>, <<"0", "2">>, <<"3">>, <<"1", "2">>, <<"1", "3">>}
DayTexts == {<<"0", "1">>, <<"1">>, <<" ", "5">>, <<"2", "8">>, <<"2", "9">>, <<"3", "0">>, <<"3", "1">>, <<"3", "2">>}
SuffixTexts == {<<>>, <<"T", "1", "0", ":", "0", "0">>, <<" ", "1", "0", ":", "0", "0">>, <<"T">>}

ManyDates ==
    {y \o <<"-">> \o m \o <<"-">> \o d \o x :
        y \in YearTexts, m \in MonthTexts, d \in DayTexts, x \in SuffixTexts}
    \cup {<<>>, <<" ">>,
          <<"y", "e", "s", "t", "e", "r", "d", "a", "y">>,
          <<"T", "2", "0", "2", "4", "-", "0", "3", "-", "0", "1">>,
          <<"2", "0", "2", "4", "/", "0", "3", "/", "0", "1">>,
          <<"0", "1", "-", "0", "3", "-", "2", "0", "2", "4">>,
          <<"2", "0", "2", "4", "-", "0", "3", "-", "0", "1", "-">>}

\* topics of up to MaxTokens words separated by single spaces, and topics
\* with leading, trailing and repeated whitespace:
\* "  Jet   oil ", "the  Of a\tthe ", " A Jet  of the oil ", "Got THE jet Oil", " "
MaxTokens == 4

TopicWords ==
    {<<"t", "h", "e">>, <<"O", "f">>, <<"J", "e", "t">>, <<"o", "i", "l">>}

SpacedTopics ==
    {<<" ", " ", "J", "e", "t", " ", " ", " ", "o", "i", "l", " ">>,
     <<"t", "h", "e", " ", " ", "O", "f", " ", "a", "\t", "t", "h", "e", " ">>,
     <<" ", "A", " ", "J", "e", "t", " ", " ", "o", "f", " ", "t", "h", "e", " ", "o", "i", "l", " ">>,
     <<"G", "o", "t", " ", "T", "H", "E", " ", "j", "e", "t", " ", "O", "i", "l">>,
     <<" ">>}

ManyTopics ==
    {Join(words) : words \in SeqsUpTo(TopicWords, MaxTokens)} \cup SpacedTopics

FewDates == {<<"2", "0", "2", "4", "-", "0", "3", "-", "0", "1">>}

FewTopics == {<<"A", " ", "J", "e", "t", " ", "o", "f", " ", "t", "h", "e", " ", "o", "i", "l">>}

ZeroResultsBody ==
    JsonObject(PyStr("ok"), 0, [t |-> "list", items |-> <<>>], JAbsent, NoErrors)

FewResponses ==
    {Timeout,
     Http(200, ZeroResultsBody),
     Http(200, JsonObject(PyStr("ok"), 2, [t |-> "list", items |-> <<ArtA, ArtB>>],
                          JAbsent, NoErrors)),
     Http(200, JsonObject(PyStr("ok"), 2, [t |-> "list", items |-> <<ArtUntitled>>],
                          JAbsent, NoErrors)),
     Http(200, InvalidJson),
     Http(429, JsonObject(PyStr("error"), -1, [t |-> "absent", items |-> <<>>],
                          PyStr("rate limited"), NoErrors))}

(***************************************************************************)
(* The state: the process environment, the arguments and local variables   *)
(* of the call in progress, the HTTP requests it has issued and the        *)
(* responses it has received, and what the call handed back.               *)
(***************************************************************************)
VARIABLES env, provider, date, topic, keywords, params, requests, responses,
          result, propagated, pc

vars == <<env, provider, date, topic, keywords, params, requests, responses,
          result, propagated, pc>>

NoResult == [status |-> "none"]

Init ==
    /\ env \in Environments
    /\ provider = "none"
    /\ date = <<>>
    /\ topic = <<>>
    /\ keywords = <<>>
    /\ params = <<>>
    /\ requests = <<>>
    /\ responses = <<>>
    /\ result = NoResult
    /\ propagated = ""
    /\ pc = "idle"

\* faulty variant of Continue: the request without the date window is sent
\* together with the request it is the fallback of, before any response
ContinueMutant(outcome, sentSoFar) ==
    /\ result' = IF outcome.kind = "return" THEN outcome.result ELSE NoResult
    /\ propagated' = IF outcome.kind = "raise" THEN outcome.exc ELSE ""
    /\ requests' = IF outcome.kind = "request"
                   THEN sentSoFar \o <<outcome.sent, WithoutDateWindow(outcome.sent)>>
                   ELSE sentSoFar
    /\ params' = IF outcome.kind = "request" THEN outcome.params ELSE params
    /\ pc' = IF outcome.kind # "request" THEN "done"
             ELSE IF sentSoFar = <<>> THEN "await_primary" ELSE "await_fallback"

\* the call goes on as the outcome says: it returns, an exception leaves
\* the function, or it sends a request and blocks on requests.get
Continue(outcome, sentSoFar) ==
    /\ result' = IF outcome.kind = "return" THEN outcome.result ELSE NoResult
    /\ propagated' = IF outcome.kind = "raise" THEN outcome.exc ELSE ""
    /\ requests' = IF outcome.kind = "request"
                   THEN Append(sentSoFar, outcome.sent) ELSE sentSoFar
    /\ params' = IF outcome.kind = "request" THEN outcome.params ELSE params
    /\ pc' = IF outcome.kind # "request" THEN "done"
             ELSE IF sentSoFar = <<>> THEN "await_primary" ELSE "await_fallback"

\* tools.py:28-78 and 245-298: the body up to the primary request
Prepare(p, d, t) ==
    LET api_key == env[EnvName(p)]
        window == AttachDateWindow(p, BaseParams(p, t, api_key.value), d)
    IN IF CredentialMissing(api_key) THEN Return(ConfigError(p))
       ELSE IF window.kind = "raise" THEN window
       ELSE Request(window.result, window.result)

\* get_related_news(date, topic) or get_related_news_gnews(date, topic) is
\* called and runs up to its first requests.get.  A behaviour is one call: calls
\* share nothing but the environment, which no call changes.  The local
\* variable keywords is assigned after the credential check only
Invoke(p, d, t) ==
    /\ pc = "idle"
    /\ provider' = p
    /\ date' = d
    /\ topic' = t
    /\ keywords' = IF CredentialMissing(env[EnvName(p)]) THEN keywords
                   ELSE extract_keywords(t)
    /\ responses' = <<>>
    /\ Continue(OuterExcept(Prepare(p, d, t)), <<>>)
    /\ UNCHANGED env

\* the primary requests.get returns or raises, and the call runs on
PrimaryResponse(r) ==
    /\ pc = "await_primary"
    /\ responses' = Append(responses, r)
    /\ Continue(OuterExcept(ProcessPrimary(provider, params, date, topic, r)), requests)
    /\ UNCHANGED <<env, provider, date, topic, keywords>>

\* the fallback requests.get returns or raises, and the call runs to its end
FallbackResponse(r) ==
    /\ pc = "await_fallback"
    /\ responses' = Append(responses, r)
    /\ Continue(OuterExcept(ProcessFallback(provider, date, topic, r)), requests)
    /\ UNCHANGED <<env, provider, date, topic, keywords>>

Next ==
    \/ \E p \in Providers, d \in Dates, t \in Topics : Invoke(p, d, t)
    \/ \E r \in Responses : PrimaryResponse(r)
    \/ \E r \in Responses : FallbackResponse(r)

Spec == Init /\ [][Next]_vars

\* the same client over many date strings and a few responses
NextDates ==
    \/ \E p \in Providers, d \in ManyDates, t \in FewTopics : Invoke(p, d, t)
    \/ \E r \in FewResponses : PrimaryResponse(r)
    \/ \E r \in FewResponses : FallbackResponse(r)

SpecDates == Init /\ [][NextDates]_vars

\* the same client over many topics, one date and a few responses
NextTopics ==
    \/ \E p \in Providers, d \in FewDates, t \in ManyTopics : Invoke(p, d, t)
    \/ \E r \in FewResponses : PrimaryResponse(r)
    \/ \E r \in FewResponses : FallbackResponse(r)

SpecTopics == Init /\ [][NextTopics]_vars

\* agent.py:25-64: the body up to requests.get
AgentPrepare(d, t) ==
    LET api_key == env["NEWS_API_KEY"]
    IN IF CredentialMissing(api_key) THEN Return(AgentConfigError)
       ELSE LET sent == AgentAttachDate(AgentParams(t, api_key.value), d)
            IN Request(sent, sent)

\* root_agent calls its tool get_related_news(date, topic), which runs up
\* to requests.get
AgentInvoke(d, t) ==
    /\ pc = "idle"
    /\ provider' = "agent"
    /\ date' = d
    /\ topic' = t
    /\ responses' = <<>>
    /\ Continue(OuterExcept(AgentPrepare(d, t)), <<>>)
    /\ UNCHANGED <<env, keywords>>

\* requests.get returns or raises, and the tool runs to its end
AgentResponse(r) ==
    /\ pc = "await_primary"
    /\ provider = "agent"
    /\ responses' = Append(responses, r)
    /\ Continue(OuterExcept(AgentProcess(date, topic, r)), requests)
    /\ UNCHANGED <<env, provider, date, topic, keywords>>

\* the responses of FewResponses and more HTTP 200 answers: articles
\* without a title, an article with a null source, a titled article under
\* a zero count, a JSON array, and a count without an article list
AgentResponses ==
    FewResponses \cup
    {Http(200, JsonObject(PyStr("ok"), 2,
                          [t |-> "list", items |-> <<ArtNoTitle, ArtNullTitle>>],
                          JAbsent, NoErrors)),
     Http(200, JsonObject(PyStr("ok"), 2, [t |-> "list", items |-> <<ArtBroken>>],
                          JAbsent, NoErrors)),
     Http(200, JsonObject(PyStr("ok"), 0, [t |-> "list", items |-> <<ArtA>>],
                          JAbsent, NoErrors)),
     Http(200, JsonArray),
     Http(200, JsonObject(PyStr("ok"), 2, [t |-> "absent", items |-> <<>>],
                          JAbsent, NoErrors))}

NextAgent ==
    \/ \E d \in ManyDates, t \in Topics : AgentInvoke(d, t)
    \/ \E r \in AgentResponses : AgentResponse(r)

SpecAgent == Init /\ [][NextAgent]_vars

(***************************************************************************)
(* Properties.                                                             *)
(***************************************************************************)
Called == pc # "idle"

Done == pc = "done"

\* the credential the called function reads from the environment
Credential == env[IF provider = "newsapi" THEN "NEWS_API_KEY" ELSE "GNEWS_API_KEY"]

CredentialConfigured == Credential.present /\ Credential.value # ""

ConfigurationTexts ==
    {"NewsAPI key not found in environment variables.",
     "GNews API key not found in environment variables. Please set the GNEWS_API_KEY environment variable."}

\* C1: for both providers, when the credential of the called provider is
\* absent or empty the call returns a Failure with a configuration message
\* and has issued no HTTP request.
C1_NoCredentialNoRequest ==
    (Called /\ ~ CredentialConfigured) =>
        /\ Done
        /\ result.status = "error"
        /\ result.error_message.text \in ConfigurationTexts
        /\ (provider = "newsapi") =
               (result.error_message.text = "NewsAPI key not found in environment variables.")
        /\ requests = <<>>
        /\ responses = <<>>

C1_Witness ==
    /\ Done
    /\ provider = "gnews"
    /\ env["GNEWS_API_KEY"].present
    /\ env["GNEWS_API_KEY"].value = ""
    /\ env["NEWS_API_KEY"].value = "k"
    /\ result.status = "error"
    /\ requests = <<>>

\* C2: whatever the inputs and whatever the provider does on any request
\* (status code, exception, malformed JSON, missing or ill-typed members),
\* no exception leaves the function, and a call that has ended has returned
\* a Result dictionary; a call that has not ended is blocked on a request.
C2_AlwaysStructuredResult ==
    /\ propagated = ""
    /\ Done => result.status \in {"success", "error"}
    /\ (Called /\ ~ Done) =>
           /\ pc \in {"await_primary", "await_fallback"}
           /\ Len(requests) = Len(responses) + 1

C2_Witness ==
    /\ Done
    /\ Len(responses) = 2
    /\ ~ responses[2].raises
    /\ responses[2].code = 200
    /\ responses[2].body.json = "invalid"
    /\ result.status = "error"

\* C3: every Result populates exactly one variant: success with a non-empty
\* 'stories' and no 'error_message', or error with an 'error_message' and
\* neither 'stories' nor 'note'.
C3_ExactlyOneVariant ==
    Done =>
        \/ /\ result.status = "success"
           /\ "stories" \in DOMAIN result
           /\ "error_message" \notin DOMAIN result
           /\ DOMAIN result \subseteq {"status", "stories", "note"}
           /\ Len(result.stories) > 0
        \/ /\ result.status = "error"
           /\ DOMAIN result = {"status", "error_message"}

C3_Witness ==
    /\ Done
    /\ result.status = "success"
    /\ "note" \in DOMAIN result
    /\ Len(result.stories) = 1

\* the response whose articles a Success was built from
UsedResponse == responses[Len(responses)]

Titled(article) == article.title.t = "str" /\ article.title.v # ""

TitledArticles(items) == SelectSeq(items, Titled)

\* C4: in every Success, 'stories' is the sequence of the articles of the
\* used response that have a non-empty title, in the provider's order, one
\* Story Record per such article; so every headline is non-empty.
C4_StoriesAreTitledArticles ==
    (Done /\ result.status = "success") =>
        LET titled == TitledArticles(UsedResponse.body.articles.items)
        IN /\ Len(result.stories) = Len(titled)
           /\ \A i \in 1..Len(titled) :
                 /\ result.stories[i].headline = titled[i].title
                 /\ result.stories[i].headline.v # ""
                 /\ result.stories[i].url = titled[i].url

C4_Witness ==
    /\ Done
    /\ result.status = "success"
    /\ Len(UsedResponse.body.articles.items) = 2
    /\ Len(result.stories) = 1
    /\ ~ Titled(UsedResponse.body.articles.items[1])

(***************************************************************************)
(* Dates, for the properties: the ordinal of a day counts the days from    *)
(* 0001-01-01, which is day 1.                                             *)
(***************************************************************************)
RECURSIVE DaysBeforeMonth(_, _)
DaysBeforeMonth(y, m) ==
    IF m = 1 THEN 0 ELSE DaysBeforeMonth(y, m - 1) + DaysInMonth(y, m - 1)

Ordinal(D) ==
    (D[1] - 1) * 365 + ((D[1] - 1) \div 4) - ((D[1] - 1) \div 100)
        + ((D[1] - 1) \div 400) + DaysBeforeMonth(D[1], D[2]) + D[3]

\* the calendar day the date argument parses to once a time component
\* after 'T' is discarded, if it parses
ParsedDate == Strptime(SplitT(date))

DateParses == Len(ParsedDate) = 3

\* the primary request carries the window [D-1, D+1] around ParsedDate,
\* as whole days
PrimaryHasWindowAround ==
    /\ Len(requests) >= 1
    /\ "from" \in DOMAIN requests[1]
    /\ "to" \in DOMAIN requests[1]
    /\ Len(requests[1].from.day) = 3
    /\ Len(requests[1].to.day) = 3
    /\ Ordinal(requests[1].from.day) = Ordinal(ParsedDate) - 1
    /\ Ordinal(requests[1].to.day) = Ordinal(ParsedDate) + 1
    /\ requests[1].from.time = (IF provider = "newsapi" THEN "" ELSE "T00:00:00Z")
    /\ requests[1].to.time = (IF provider = "newsapi" THEN "" ELSE "T23:59:59Z")

\* C5 as stated: for any date that parses as YYYY-MM-DD once a trailing time
\* component is discarded, giving day D, the primary request carries the
\* window from D-1 to D+1 inclusive.
C5_Original ==
    (Called /\ CredentialConfigured /\ DateParses) => PrimaryHasWindowAround

\* C5, amended: for any date string of at least 10 characters that parses
\* as YYYY-MM-DD once a trailing time component is discarded, giving a day D
\* from 0001-01-02 to 9999-12-30, the primary request carries the window
\* from D-1 to D+1 inclusive.
C5_WindowAroundDate ==
    (/\ Called
     /\ CredentialConfigured
     /\ DateParses
     /\ Len(date) >= 10
     /\ Ordinal(ParsedDate) > 1
     /\ Ordinal(ParsedDate) < Ordinal(<<9999, 12, 31>>)) => PrimaryHasWindowAround

C5_Witness ==
    /\ pc = "await_primary"
    /\ provider = "gnews"
    /\ date = <<"2", "0", "2", "4", "-", "0", "1", "-", "0", "1", "T", "1", "0", ":", "0", "0">>
    /\ requests[1].from.day = <<2023, 12, 31>>
    /\ requests[1].to.day = <<2024, 1, 2>>

\* a date string that does not parse as YYYY-MM-DD
DateMalformed == Len(date) > 0 /\ ~ DateParses

\* a Result without the date that a not-found message quotes
WithoutDateInfo(res) ==
    IF res.status = "error" THEN [res EXCEPT !.error_message.date_info = <<>>]
    ELSE res

\* the request of a call without a date, and what such a call returns on
\* the response r
RequestWithoutDate == BaseParams(provider, topic, Credential.value)

ResultWithoutDate(r) ==
    OuterExcept(ProcessPrimary(provider, RequestWithoutDate, <<>>, topic, r)).result

Answered200(r) == ~ r.raises /\ r.code = 200

\* the response is an HTTP 200 answer in which the provider reports zero
\* articles: an empty article list, with "status": "ok" and
\* "totalResults": 0 in the case of NewsAPI
ZeroArticles(r) ==
    /\ Answered200(r)
    /\ r.body.json = "object"
    /\ r.body.articles.t = "list"
    /\ r.body.articles.items = <<>>
    /\ (provider = "newsapi") =>
           (r.body.status = [t |-> "str", v |-> "ok"] /\ r.body.totalResults = 0)

\* the request carries no date window
NoDateFilter(request) ==
    "from" \notin DOMAIN request /\ "to" \notin DOMAIN request

\* C7: whenever the primary request carried a date filter and was answered
\* HTTP 200 with zero articles, a second request without the date filter
\* has been issued, and no Failure is returned before that request has been
\* answered.
C7_RetryWithoutDateBeforeFailure ==
    (/\ Len(responses) >= 1
     /\ ~ NoDateFilter(requests[1])
     /\ ZeroArticles(responses[1])) =>
        /\ Len(requests) = 2
        /\ NoDateFilter(requests[2])
        /\ Done => Len(responses) = 2

C7_Witness ==
    /\ Done
    /\ Len(responses) = 2
    /\ provider = "newsapi"
    /\ ~ NoDateFilter(requests[1])
    /\ ZeroArticles(responses[1])
    /\ ZeroArticles(responses[2])
    /\ result.status = "error"
    /\ result.error_message.text = "No news articles found for topic"

\* C8: a Success carries the note if and only if its stories came from the
\* fallback request issued without the date filter.
C8_NoteIffFallback ==
    (Done /\ result.status = "success") =>
        /\ ("note" \in DOMAIN result) = (Len(responses) = 2)
        /\ ("note" \in DOMAIN result) =>
               /\ Len(requests) = 2
               /\ ~ NoDateFilter(requests[1])
               /\ NoDateFilter(requests[2])
               /\ result.note = "Results found by expanding the search beyond the specified date."
        /\ ("note" \notin DOMAIN result) => Len(requests) = 1

C8_Witness ==
    /\ Done
    /\ result.status = "success"
    /\ "note" \in DOMAIN result
    /\ Len(result.stories) = 2
    /\ Len(responses) = 2

\* every request of the chain was answered HTTP 200 and the call ended
\* without a Story Record
All200NoStory ==
    /\ Done
    /\ Len(responses) >= 1
    /\ \A i \in 1..Len(responses) : Answered200(responses[i])
    /\ result.status # "success"

\* the Failure names the caller's topic and, if a non-blank date was
\* supplied, that date
NamesTopicAndDate ==
    /\ result.status = "error"
    /\ result.error_message.text = "No news articles found for topic"
    /\ result.error_message.topic = topic
    /\ (\E i \in 1..Len(date) : date[i] \notin {" ", "\t"}) =>
           result.error_message.date_info = date

PrimaryNot200 ==
    Len(responses) >= 1 /\ ~ responses[1].raises /\ responses[1].code # 200

\* the error text in the body of the answer: "message" for NewsAPI, the
\* first of "errors" for GNews; "" when the body has none
ProviderMessage(r) ==
    IF r.body.json # "object" THEN ""
    ELSE IF provider = "newsapi"
    THEN (IF r.body.message.t = "str" THEN r.body.message.v ELSE "")
    ELSE (IF r.body.errors.t = "list" /\ Len(r.body.errors.items) > 0
          THEN r.body.errors.items[1] ELSE "")

\* one request was made, and the call ended in a Failure
OneRequestThenFailure ==
    /\ Done
    /\ Len(requests) = 1
    /\ Len(responses) = 1
    /\ result.status = "error"

\* C10 as stated: when the primary request is answered with a non-200
\* status, the call returns a Failure carrying the provider's error
\* message, and exactly one HTTP request is made, whether or not a date
\* filter was active.
C10_Original ==
    PrimaryNot200 =>
        /\ OneRequestThenFailure
        /\ ProviderMessage(responses[1]) # "" =>
               result.error_message.detail = ProviderMessage(responses[1])

\* the fixed messages of get_related_news_gnews for a daily limit and for
\* an invalid key
GNewsFixedTexts ==
    {"GNews API daily request limit exceeded. Please try again tomorrow.",
     "Invalid GNews API key. Please check your API key configuration."}

\* C10, amended: when the primary request is answered with a non-200
\* status, the call returns a Failure and exactly one HTTP request is made,
\* whether or not a date filter was active; the Failure carries the
\* provider's error message, except that a GNews answer that mentions a
\* daily limit or an invalid API key is reported with the client's fixed
\* message for that condition.
C10_Non200NoFallback ==
    PrimaryNot200 =>
        /\ OneRequestThenFailure
        /\ result.error_message.text #
               "No news articles found for topic"
        /\ ProviderMessage(responses[1]) # "" =>
               \/ result.error_message.detail = ProviderMessage(responses[1])
               \/ /\ provider = "gnews"
                  /\ ProviderMessage(responses[1]) \in
                         {"Daily limit reached", "Invalid API key"}
                  /\ result.error_message.text \in GNewsFixedTexts

C10_Witness ==
    /\ Done
    /\ PrimaryNot200
    /\ responses[1].code = 429
    /\ ~ NoDateFilter(requests[1])
    /\ Len(requests) = 1
    /\ result.error_message.detail = "rate limited"

\* extract_keywords(topic) has run: the call passed its credential check
Reduced == Called /\ CredentialConfigured

IsStopWord(word) == Lower(word) \in stop_words

AllStopWords(words) == \A i \in 1..Len(words) : IsStopWord(words[i])

\* C11: a topic of at most three whitespace-separated words, stop words,
\* upper case and the empty topic included, is returned by extract_keywords
\* as it was given, character for character.
C11_ShortTopicUnchanged ==
    (Reduced /\ Len(Split(topic)) <= 3) => keywords = topic

\* a topic of three words in mixed case with a stop word among them, kept
C11_Witness ==
    /\ Reduced
    /\ Len(Split(topic)) = 3
    /\ \E i \in 1..3 : IsStopWord(Split(topic)[i])
    /\ topic # Lower(topic)
    /\ keywords = topic

\* C12: a topic of more than three words that are all stop words once
\* lower-cased is returned by extract_keywords as it was given, in its
\* original case and spacing, and never as the empty string.
C12_AllStopWordsKeepsTopic ==
    (Reduced /\ Len(Split(topic)) > 3 /\ AllStopWords(Split(topic)))
        => (keywords = topic /\ keywords # <<>>)

\* four stop words, one of them capitalised and two of them two blanks apart
C12_Witness ==
    /\ Reduced
    /\ Len(Split(topic)) > 3
    /\ AllStopWords(Split(topic))
    /\ topic # Lower(topic)
    /\ topic # Join(Split(topic))
    /\ keywords = topic

NotStopWord(word) == word \notin stop_words

\* C18: for a topic of more than three words of which at least one is not
\* a stop word, extract_keywords returns the lower-cased words of the topic
\* with the stop words removed, in their order, joined by single spaces;
\* no word of the result is a stop word.
C18_KeywordsAreLoweredNonStopWords ==
    (Reduced /\ Len(Split(topic)) > 3 /\ ~ AllStopWords(Split(topic)))
        => /\ keywords = Join(SelectSeq(Split(Lower(topic)), NotStopWord))
           /\ \A i \in 1..Len(Split(keywords)) : Split(keywords)[i] \notin stop_words
           /\ keywords = Lower(keywords)

\* a topic in mixed case with stop words and other words, reduced to fewer
\* words than it had
C18_Witness ==
    /\ Reduced
    /\ Len(Split(topic)) > 3
    /\ ~ AllStopWords(Split(topic))
    /\ topic # Lower(topic)
    /\ \E i \in 1..Len(Split(topic)) : IsStopWord(Split(topic)[i])
    /\ Len(Split(keywords)) >= 2
    /\ Len(Split(keywords)) < Len(Split(topic))
    /\ keywords = Join(SelectSeq(Split(Lower(topic)), NotStopWord))

\* C20: extract_keywords is idempotent: reducing the keywords it returned
\* gives the same keywords.
C20_ExtractKeywordsIdempotent ==
    Reduced => extract_keywords(keywords) = keywords

\* keywords that differ from the topic and are themselves long enough to be
\* filtered when reduced again
C20_Witness ==
    /\ Reduced
    /\ keywords # topic
    /\ Len(Split(keywords)) > 3
    /\ extract_keywords(keywords) = keywords

\* C13: the requests of a call are issued one after another, each only
\* after the response to the one before it was received, and a call issues
\* at most three of them: the primary request and at most two fallbacks.
C13_SequentialAtMostThree ==
    /\ Len(requests) <= 3
    /\ Len(requests) <= Len(responses) + 1
    /\ (pc \in {"await_primary", "await_fallback"}) => Len(requests) = Len(responses) + 1
    /\ Done => Len(requests) = Len(responses)

\* a call that issued a fallback request and received the response to it
C13_Witness ==
    /\ Done
    /\ Len(requests) = 2
    /\ Len(responses) = 2
    /\ requests[2] # requests[1]

\* C14 as stated: the fallback request carries the parameters of the
\* primary request, equal for every key (search string, credential,
\* language, result count, sort order), with 'from' and 'to' absent.
C14_Original ==
    Len(requests) >= 2 =>
        /\ ~ NoDateFilter(requests[1])
        /\ DOMAIN requests[2] = DOMAIN requests[1] \ {"from", "to"}
        /\ \A k \in DOMAIN requests[2] : requests[2][k] = requests[1][k]

\* C14, amended: the fallback request carries the parameters of the primary
\* request with 'from' and 'to' absent and every other key equal, except
\* that the NewsAPI variant sends the sort order 'popularity' where the
\* primary request had 'relevancy'.
C14_FallbackDropsWindow ==
    Len(requests) >= 2 =>
        /\ ~ NoDateFilter(requests[1])
        /\ DOMAIN requests[2] = DOMAIN requests[1] \ {"from", "to"}
        /\ \A k \in DOMAIN requests[2] :
              IF provider = "newsapi" /\ k = "sortBy"
              THEN requests[1][k] = "relevancy" /\ requests[2][k] = "popularity"
              ELSE requests[2][k] = requests[1][k]

\* a NewsAPI fallback request: same search string, key, language and count,
\* no window, sorted by popularity
C14_Witness ==
    /\ Len(requests) = 2
    /\ provider = "newsapi"
    /\ requests[1].q # <<>>
    /\ requests[2].q = requests[1].q
    /\ requests[2].apiKey = requests[1].apiKey
    /\ requests[2].pageSize = requests[1].pageSize
    /\ requests[2].sortBy = "popularity"
    /\ NoDateFilter(requests[2])

\* C15: in the NewsAPI variant, whenever the search sorted by relevancy has
\* no results at all, with or without a date filter on the request, a
\* request with the sort order 'popularity' is issued before a Failure is
\* returned.
C15_PopularityRetryBeforeFailure ==
    (/\ provider = "newsapi"
     /\ Done
     /\ Len(responses) >= 1
     /\ requests[1].sortBy = "relevancy"
     /\ ZeroArticles(responses[1])
     /\ result.status = "error") =>
        \E i \in 2..Len(requests) : requests[i].sortBy = "popularity"

\* the texts that open a Failure built from the provider's answer
ProviderErrorTexts == {"NewsAPI error: ", "GNews API error: "} \cup GNewsFixedTexts

\* C16: an answer with a status outside 2xx to any request of the chain,
\* the fallback request without dates included, ends the call in a Failure
\* whose message carries the provider's error text or the HTTP status, and
\* not in the 'no news articles found' Failure.
C16_Non2xxGivesProviderError ==
    \A i \in 1..Len(responses) :
        (~ responses[i].raises /\ responses[i].code \notin 200..299) =>
            /\ Done
            /\ result.status = "error"
            /\ result.error_message.text # "No news articles found for topic"
            /\ result.error_message.text \in ProviderErrorTexts

\* C17: the 'no articles found' Failure is returned only after the
\* fallbacks that apply: when the primary request carried a date filter and
\* its HTTP 200 answer gave no Story Record, for whatever reason, the
\* request without dates has been issued before that Failure.
C17_NotFoundOnlyAfterFallback ==
    (/\ Done
     /\ result.status = "error"
     /\ result.error_message.text = "No news articles found for topic"
     /\ ~ NoDateFilter(requests[1])
     /\ Answered200(responses[1])) =>
        /\ Len(requests) >= 2
        /\ NoDateFilter(requests[2])

\* the tool of agent.py has been called with NEWS_API_KEY configured
AgentCalled ==
    /\ Called
    /\ provider = "agent"
    /\ env["NEWS_API_KEY"].present
    /\ env["NEWS_API_KEY"].value # ""

\* the date argument is a calendar day written YYYY-MM-DD
WellFormedDate ==
    /\ Len(date) = 10
    /\ \A i \in {1, 2, 3, 4, 6, 7, 9, 10} : date[i] \in DigitChars
    /\ date[5] = "-"
    /\ date[8] = "-"
    /\ DateParses

\* the answer has no article with a non-empty title
NoTitledArticle(r) ==
    \/ r.body.json # "object"
    \/ r.body.articles.t # "list"
    \/ TitledArticles(r.body.articles.items) = <<>>

\* C21: the get_related_news tool of agent.py, called with a configured
\* credential, issues exactly one HTTP request and no fallback; the request
\* searches for the topic as given, not reduced to keywords; for a
\* well-formed date D it carries from = to = D, one day and not
\* [D-1, D+1]; an HTTP 200 answer without titled articles ends the call in
\* a Failure at once.
C21_AgentToolSingleRequest ==
    AgentCalled =>
        /\ Len(requests) = 1
        /\ Len(responses) <= 1
        /\ Len(responses) = 1 => Done
        /\ requests[1].q = topic
        /\ WellFormedDate =>
               /\ ~ NoDateFilter(requests[1])
               /\ requests[1].from = date
               /\ requests[1].to = date
        /\ (Len(responses) = 1 /\ Answered200(responses[1])
                /\ NoTitledArticle(responses[1])) =>
               result.status = "error"

\* a call with a topic that extract_keywords would shorten and a
\* well-formed date, answered HTTP 200 with untitled articles only
C21_Witness ==
    /\ AgentCalled
    /\ Done
    /\ extract_keywords(topic) # topic
    /\ requests[1].q = topic
    /\ WellFormedDate
    /\ requests[1].from = date
    /\ Len(responses) = 1
    /\ Answered200(responses[1])
    /\ responses[1].body.json = "object"
    /\ responses[1].body.articles.t = "list"
    /\ responses[1].body.articles.items # <<>>
    /\ NoTitledArticle(responses[1])
    /\ Len(requests) = 1
    /\ result.status = "error"

====
